---- MODULE Spec2Model ----
(***************************************************************************)
(* A model of the NetBox -> Catalyst Center webhook receiver (src/app.py). *)
(*                                                                         *)
(* Strings are sequences of one-character strings, so that concatenation   *)
(* (f-strings), containment ("?" in url) and rstrip are computed.          *)
(* JSON / Python values are tagged records:                                *)
(*   [t |-> "null"]              None / JSON null                          *)
(*   [t |-> "str",  s |-> chars] a string                                  *)
(*   [t |-> "list", n |-> k]     a list of k elements                      *)
(*   [t |-> "map",  m |-> f]     a dict, f a function on the present keys  *)
(***************************************************************************)
EXTENDS Integers, Sequences, FiniteSets, TLC

VARIABLES cfg,     \* process configuration read from the environment at import
          req,     \* per-invocation local state of handle_nbx
          calls,   \* per-invocation log of the outbound controller calls
          issued,  \* controller side: number of tokens handed out so far
          served,  \* number of webhook messages accepted so far
          arg,     \* input of a pure function under check
          res      \* its result

vars == <<cfg, req, calls, issued, served, arg, res>>

(***************************************************************************)
(* Python values                                                           *)
(***************************************************************************)
None == [t |-> "null"]
StrV(s) == [t |-> "str", s |-> s]
ListV(n) == [t |-> "list", n |-> n]
MapV(m) == [t |-> "map", m |-> m]
NoKeys == <<>>
EmptyDict == MapV(NoKeys)

IsNone(v) == v.t = "null"
IsDict(v) == v.t = "map"

\* Python truthiness: None, "", [] and {} are falsy.
Truthy(v) ==
  CASE v.t = "null" -> FALSE
    [] v.t = "str" -> v.s # <<>>
    [] v.t = "list" -> v.n > 0
    [] v.t = "map" -> DOMAIN v.m # {}

\* x or y
PyOr(x, y) == IF Truthy(x) THEN x ELSE y

\* dict.get(key, default) on a dict value
DictGet(dv, key, default) == IF key \in DOMAIN dv.m THEN dv.m[key] ELSE default

(***************************************************************************)
(* Strings                                                                 *)
(***************************************************************************)
Contains(s, c) == \E i \in DOMAIN s : s[i] = c

RECURSIVE rstrip(_, _)
rstrip(s, c) ==
  IF s # <<>> /\ s[Len(s)] = c THEN rstrip(SubSeq(s, 1, Len(s) - 1), c) ELSE s

Digits == <<"0", "1", "2", "3", "4", "5", "6", "7", "8", "9">>

\* str(n) of a non-negative int
RECURSIVE DecStr(_)
DecStr(n) == IF n < 10 THEN <<Digits[n + 1]>> ELSE DecStr(n \div 10) \o <<Digits[(n % 10) + 1]>>

\* repr of a list of n strings 'x'
RECURSIVE ListItems(_)
ListItems(n) ==
  IF n = 0 THEN <<>>
  ELSE IF n = 1 THEN <<"'", "x", "'">>
  ELSE ListItems(n - 1) \o <<",", " ", "'", "x", "'">>

\* what an f-string puts for {v}
Format(v) ==
  CASE v.t = "str" -> v.s
    [] v.t = "null" -> <<"N", "o", "n", "e">>
    [] v.t = "list" -> <<"[">> \o ListItems(v.n) \o <<"]">>

(***************************************************************************)
(* Configuration from the environment (lines 8-14)                         *)
(***************************************************************************)
Wireless == <<"w", "i", "r", "e", "l", "e", "s", "s">>
Generic == <<"g", "e", "n", "e", "r", "i", "c">>
Deploy == <<"D", "e", "p", "l", "o", "y">>
Preview == <<"P", "r", "e", "v", "i", "e", "w">>

\* os.environ values -> the module globals CC_HOST, NB_SECRET,
\* DEPLOYMENT_MODE, INTERFACE_PATH
Config(host, secret, mode, path) ==
  [host |-> rstrip(host, "/"), secret |-> secret, mode |-> mode, path |-> path]

CC_HOST == cfg.host
NB_SECRET == cfg.secret
DEPLOYMENT_MODE == cfg.mode
INTERFACE_PATH == cfg.path

(***************************************************************************)
(* build_update_url and the deployment-mode suffix of handle_nbx            *)
(***************************************************************************)
WirelessPath == 
  <<"/", "d", "n", "a", "/", "i", "n", "t", "e", "n", "t", "/", "a", "p", "i", "/", "v", "1", "/", "w", "i", "r", "e", "l", "e", "s", "s", "S", "e", "t", "t", "i", "n", "g", "s", "/", "i", "n", "t", "e", "r", "f", "a", "c", "e", "s", "/">>
GenericPath == 
  <<"/", "d", "n", "a", "/", "i", "n", "t", "e", "n", "t", "/", "a", "p", "i", "/", "v", "1", "/", "i", "n", "t", "e", "r", "f", "a", "c", "e", "/">>
DeploymentParam == <<"d", "e", "p", "l", "o", "y", "m", "e", "n", "t", "M", "o", "d", "e", "=">>

build_update_url_swapped(if_uuid) ==
  IF INTERFACE_PATH = Generic
  THEN CC_HOST \o WirelessPath \o Format(if_uuid)
  ELSE CC_HOST \o GenericPath \o Format(if_uuid)

build_update_url(if_uuid) ==
  IF INTERFACE_PATH = Wireless
  THEN CC_HOST \o WirelessPath \o Format(if_uuid)
  ELSE CC_HOST \o GenericPath \o Format(if_uuid)

\* lines 96-99: url = build_update_url(iface_uuid), then the query parameter
target_url(if_uuid) ==
  LET url == build_update_url(if_uuid)
      sep == IF Contains(url, "?") THEN <<"&">> ELSE <<"?">>
  IN IF DEPLOYMENT_MODE # <<>>
     THEN url \o sep \o DeploymentParam \o DEPLOYMENT_MODE
     ELSE url

(***************************************************************************)
(* extract_uuid_and_desc                                                   *)
(***************************************************************************)
Returned(u, de) == [exc |-> "none", uuid |-> u, desc |-> de]
Raised(e) == [exc |-> e, uuid |-> None, desc |-> None]
\* the function under check has not been applied yet
Pending == [exc |-> "pending", uuid |-> None, desc |-> None]

\* One "if isinstance(src, dict) and src:" block of the extractor, given the
\* values accumulated so far.  first is TRUE for the data block, which assigns
\* unconditionally, FALSE for the post and object blocks, which fill only what
\* is still None.  cf.get is an attribute error on a str or a list.
ExtractBlock(src, acc, first) ==
  IF acc.exc # "none" \/ ~(IsDict(src) /\ Truthy(src)) THEN acc
  ELSE LET cf == PyOr(DictGet(src, "custom_fields", None), EmptyDict)
           de == IF first THEN DictGet(src, "description", acc.desc)
                 ELSE IF IsNone(acc.desc) THEN DictGet(src, "description", None)
                 ELSE acc.desc
       IN IF first \/ IsNone(acc.uuid)
          THEN IF IsDict(cf)
               THEN Returned(DictGet(cf, "catalyst_interface_uuid",
                                     IF first THEN acc.uuid ELSE None), de)
               ELSE Raised("AttributeError")
          ELSE Returned(acc.uuid, de)

extract_uuid_and_desc(payload) ==
  IF ~IsDict(payload) THEN Raised("AttributeError")
  ELSE LET d == PyOr(DictGet(payload, "data", None), EmptyDict)
           a1 == ExtractBlock(d, Returned(None, None), TRUE)
           p0 == IF IsDict(d) THEN DictGet(d, "post", None) ELSE None
           post == IF ~Truthy(p0) THEN DictGet(payload, "post", None) ELSE p0
           a2 == ExtractBlock(post, a1, FALSE)
           obj == DictGet(payload, "object", None)
       IN ExtractBlock(obj, a2, FALSE)

(***************************************************************************)
(* Payload shapes the extractor is exercised on.  Each source carries its   *)
(* own description and identifier so that the winner is visible.           *)
(***************************************************************************)
Opt(key, values) == {NoKeys} \cup {key :> v : v \in values}

CustomFieldsOf(id) ==
  { EmptyDict, StrV(<<"x">>), ListV(0), ListV(1),
    MapV("catalyst_interface_uuid" :> None),
    MapV("catalyst_interface_uuid" :> StrV(id)),
    MapV("name" :> StrV(<<"x">>)) }

ObjectsOf(de, id, posts) ==
  { MapV(a @@ b @@ c) :
      a \in Opt("description", {None, StrV(de)}),
      b \in Opt("custom_fields", CustomFieldsOf(id)),
      c \in Opt("post", posts) }

WrongTyped == {None, StrV(<<"x">>), ListV(1)}

NestedPosts ==
  {StrV(<<"x">>)} \cup
  { MapV(a @@ b) :
      a \in Opt("description", {StrV(<<"B">>)}),
      b \in Opt("custom_fields",
                {StrV(<<"x">>), MapV("catalyst_interface_uuid" :> StrV(<<"2">>))}) }

DataValues == WrongTyped \cup ObjectsOf(<<"A">>, <<"1">>, NestedPosts)
PostValues == WrongTyped \cup ObjectsOf(<<"C">>, <<"3">>, {})
ObjectValues == WrongTyped \cup ObjectsOf(<<"D">>, <<"4">>, {})

Payloads ==
  { MapV(a @@ b @@ c) :
      a \in Opt("data", DataValues),
      b \in Opt("post", PostValues),
      c \in Opt("object", ObjectValues) }

(***************************************************************************)
(* The extractor as the specification words it: three evidence sources in   *)
(* the order data, post, object; a source that is absent, of the wrong type *)
(* or empty gives no evidence; per field the first source supplying it wins.*)
(***************************************************************************)
Usable(src) == IsDict(src) /\ Truthy(src)

DescriptionIn(src) ==
  IF Usable(src) THEN DictGet(src, "description", None) ELSE None

IdentifierIn(src) ==
  IF Usable(src)
  THEN LET cf == DictGet(src, "custom_fields", None)
       IN IF IsDict(cf) THEN DictGet(cf, "catalyst_interface_uuid", None) ELSE None
  ELSE None

PostSourceOf(payload) ==
  LET d == DictGet(payload, "data", None)
  IN IF IsDict(d) /\ Truthy(DictGet(d, "post", None))
     THEN DictGet(d, "post", None)
     ELSE DictGet(payload, "post", None)

FirstSupplied(vs) ==
  IF ~IsNone(vs[1]) THEN vs[1] ELSE IF ~IsNone(vs[2]) THEN vs[2] ELSE vs[3]

SourcesOf(payload) ==
  <<DictGet(payload, "data", None), PostSourceOf(payload),
    DictGet(payload, "object", None)>>

ClaimedExtract(payload) ==
  LET srcs == SourcesOf(payload)
  IN Returned(FirstSupplied([i \in 1..3 |-> IdentifierIn(srcs[i])]),
              FirstSupplied([i \in 1..3 |-> DescriptionIn(srcs[i])]))

\* C5: for every payload, extract returns per field the value of the first of
\* data, post (nested in data if present and non-empty, else top-level), object
\* that supplies it.
C5_FirstSourceWins == res # Pending => res = ClaimedExtract(arg)

\* C5, the part the code does satisfy: whenever extract returns at all, the
\* result is the first-source-wins result.
C5_FirstSourceWinsWhenReturned ==
  (res # Pending /\ res.exc = "none") => res = ClaimedExtract(arg)

\* C5, the "in particular": data.description and
\* data.custom_fields.catalyst_interface_uuid both present give exactly those.
C5_DataWins ==
  LET d == DictGet(arg, "data", None)
  IN (res # Pending /\ ~IsNone(DescriptionIn(d)) /\ ~IsNone(IdentifierIn(d)))
       => res = Returned(IdentifierIn(d), DescriptionIn(d))

\* C6: for every payload mapping extract never raises, and when no source
\* yields a value the result is (absent, absent).
C6_NeverRaises ==
  res # Pending =>
    /\ res.exc = "none"
    /\ (\A i \in 1..3 : /\ IsNone(IdentifierIn(SourcesOf(arg)[i]))
                        /\ IsNone(DescriptionIn(SourcesOf(arg)[i])))
         => res = Returned(None, None)


InitExtract ==
  /\ cfg = Config(<<"h">>, <<>>, Deploy, Generic)
  /\ req = <<>>
  /\ calls = <<>>
  /\ issued = 0
  /\ served = 0
  /\ arg \in Payloads
  /\ res = Pending

Extract ==
  /\ res = Pending
  /\ res' = extract_uuid_and_desc(arg)
  /\ UNCHANGED <<cfg, req, calls, issued, served, arg>>

NextExtract == Extract

SpecExtract == InitExtract /\ [][NextExtract]_vars

(***************************************************************************)
(* verify_hmac                                                             *)
(*                                                                         *)
(* HMAC-SHA512 is abstracted to a keyed hash of DigestHexLen hex digits    *)
(* (the real digest has 128); hexdigest() renders it in lowercase hex.     *)
(* hmac.compare_digest on two str raises TypeError unless both are ASCII.  *)
(***************************************************************************)
DigestHexLen == 2

HexDigits ==
  <<"0", "1", "2", "3", "4", "5", "6", "7", "8", "9", "a", "b", "c", "d", "e", "f">>

\* a character outside ASCII (U+00E1), as a latin-1 decoded header may hold
NonAscii == "U+00E1"

SecretChars == ("s" :> 115) @@ ("k" :> 107)

\* str.encode() of the secret
Encode(s) == [i \in DOMAIN s |-> SecretChars[s[i]]]

RECURSIVE Mix(_, _)
Mix(bytes, h) ==
  IF bytes = <<>> THEN h ELSE Mix(Tail(bytes), (h * 31 + Head(bytes) + 1) % 65536)

RECURSIVE Pow16(_)
Pow16(n) == IF n = 0 THEN 1 ELSE 16 * Pow16(n - 1)

\* hmac.new(key, msg, hashlib.sha512), as a number below 16^DigestHexLen
hmac_new(key, msg) == Mix(msg, Mix(key, 7) * 131 + 5) % Pow16(DigestHexLen)

RECURSIVE ToHex(_, _)
ToHex(n, len) ==
  IF len = 0 THEN <<>> ELSE ToHex(n \div 16, len - 1) \o <<HexDigits[(n % 16) + 1]>>

hexdigest(h) == ToHex(h, DigestHexLen)

Bool(b) == [exc |-> "none", ok |-> b]

compare_digest(a, b) ==
  IF Contains(a, NonAscii) \/ Contains(b, NonAscii)
  THEN [exc |-> "TypeError", ok |-> FALSE]
  ELSE Bool(a = b)

verify_hmac(raw_body, signature) ==
  IF NB_SECRET = <<>> THEN Bool(TRUE)
  ELSE LET digest == hexdigest(hmac_new(Encode(NB_SECRET), raw_body))
       IN compare_digest(digest, PyOr(signature, StrV(<<>>)).s)

(***************************************************************************)
(* Inputs of verify_hmac: for each body, no header, the empty header, the   *)
(* correct digest, every one-character change of it (another hex digit, an *)
(* upper-case digit, a non-hex character, a non-ASCII character), the      *)
(* digest cut or lengthened by one character, and the short strings over   *)
(* two hex digits.                                                         *)
(***************************************************************************)
MaxBodyLen == 2

Secrets == {<<>>, <<"s">>, <<"k">>, <<"s", "k">>}

SeqsUpTo(S, n) == UNION {[1..k -> S] : k \in 0..n}

Bodies == SeqsUpTo({0, 1}, MaxBodyLen)

SigChars ==
  {HexDigits[i] : i \in DOMAIN HexDigits} \cup {"A", "F", "g", NonAscii}

SignaturesFor(dg) ==
  {None, StrV(<<>>), StrV(dg)}
    \cup {StrV([dg EXCEPT ![i] = c]) : i \in DOMAIN dg, c \in SigChars}
    \cup {StrV(dg \o <<c>>) : c \in SigChars}
    \cup {StrV(SubSeq(dg, 1, Len(dg) - 1))}
    \cup {StrV(s) : s \in SeqsUpTo({"0", "a"}, DigestHexLen)}

InitVerify ==
  /\ \E secret \in Secrets : cfg = Config(<<"h">>, secret, Deploy, Generic)
  /\ req = <<>>
  /\ calls = <<>>
  /\ issued = 0
  /\ served = 0
  /\ \E b \in Bodies :
       \E sig \in SignaturesFor(hexdigest(hmac_new(Encode(cfg.secret), b))) :
         arg = [raw |-> b, signature |-> sig]
  /\ res = Pending

Verify ==
  /\ res = Pending
  /\ res' = verify_hmac(arg.raw, arg.signature)
  /\ UNCHANGED <<cfg, req, calls, issued, served, arg>>

NextVerify == Verify

SpecVerify == InitVerify /\ [][NextVerify]_vars

\* C7: with an empty secret verify returns true whatever the signature; with a
\* non-empty secret it returns true exactly for the lowercase-hex keyed hash of
\* the body, and false for a missing or any differing signature.
C7_VerifyIffDigest ==
  res # Pending =>
    LET digest == hexdigest(hmac_new(Encode(cfg.secret), arg.raw))
    IN /\ res.exc = "none"
       /\ cfg.secret = <<>> => res.ok
       /\ cfg.secret # <<>> => (res.ok <=> arg.signature = StrV(digest))

\* C7 restricted to ASCII signatures, where the code does satisfy it.
C7_VerifyIffDigestAscii ==
  (res # Pending /\ (IsNone(arg.signature) \/ ~Contains(arg.signature.s, NonAscii))) =>
    LET digest == hexdigest(hmac_new(Encode(cfg.secret), arg.raw))
    IN /\ res.exc = "none"
       /\ cfg.secret = <<>> => res.ok
       /\ cfg.secret # <<>> => (res.ok <=> arg.signature = StrV(digest))

(***************************************************************************)
(* Inputs of the URL builder                                               *)
(***************************************************************************)
MaxIdLen == 2

EnvHosts == {<<"h">>, <<"h", "/">>, <<"h", "/", "/">>, <<"h", "?", "q">>}
EnvPaths == {Generic, Wireless, <<"W", "i", "r", "e", "l", "e", "s", "s">>, <<>>}
EnvModes == {<<>>, Deploy, Preview}
Ids == SeqsUpTo({"a", "?", "/"}, MaxIdLen) \ {<<>>}

InitURL ==
  /\ \E h \in EnvHosts, p \in EnvPaths, m \in EnvModes : cfg = Config(h, <<>>, m, p)
  /\ req = <<>>
  /\ calls = <<>>
  /\ issued = 0
  /\ served = 0
  /\ arg \in Ids
  /\ res = Pending

BuildURL ==
  /\ res = Pending
  /\ res' = [exc |-> "none", url |-> target_url(StrV(arg))]
  /\ UNCHANGED <<cfg, req, calls, issued, served, arg>>

NextURL == BuildURL

SpecURL == InitURL /\ [][NextURL]_vars

ClaimedBase(host, path, id) ==
  IF path = <<"w", "i", "r", "e", "l", "e", "s", "s">>
  THEN host \o 
       <<"/", "d", "n", "a", "/", "i", "n", "t", "e", "n", "t", "/", "a", "p", "i", "/", "v", "1", "/", "w", "i", "r", "e", "l", "e", "s", "s", "S", "e", "t", "t", "i", "n", "g", "s", "/", "i", "n", "t", "e", "r", "f", "a", "c", "e", "s", "/">> \o id
  ELSE host \o 
       <<"/", "d", "n", "a", "/", "i", "n", "t", "e", "n", "t", "/", "a", "p", "i", "/", "v", "1", "/", "i", "n", "t", "e", "r", "f", "a", "c", "e", "/">> \o id

\* C8: the update URL is {host}/dna/intent/api/v1/wirelessSettings/interfaces/{id}
\* in wireless mode and {host}/dna/intent/api/v1/interface/{id} in every other
\* mode; a non-empty deployment mode is appended as deploymentMode=<value>
\* after "&" if the URL already holds a "?" and after "?" otherwise; an empty
\* deployment mode adds nothing.
C8_UpdateUrl ==
  res # Pending =>
    LET base == ClaimedBase(cfg.host, cfg.path, arg)
        param == <<"d", "e", "p", "l", "o", "y", "m", "e", "n", "t", "M", "o", "d", "e", "=">> \o cfg.mode
    IN /\ cfg.mode = <<>> => res.url = base
       /\ (cfg.mode # <<>> /\ Contains(base, "?")) => res.url = base \o <<"&">> \o param
       /\ (cfg.mode # <<>> /\ ~Contains(base, "?")) => res.url = base \o <<"?">> \o param

\* C8 witness: a wireless URL has been built for an id holding a "?", with
\* the deployment mode Preview appended after "&".
C8_Witness ==
  /\ res # Pending
  /\ cfg.path = Wireless
  /\ cfg.mode = Preview
  /\ arg = <<"a", "?">>
  /\ res.url[Len(res.url) - Len(Preview) - Len(DeploymentParam)] = "&"

(***************************************************************************)
(* handle_nbx: one invocation per webhook message, several invocations     *)
(* running concurrently on the server's worker threads.  An invocation     *)
(* blocks in its two outbound calls; other invocations run meanwhile.      *)
(***************************************************************************)
NumWorkers == 2
MaxRequests == 2

Workers == 1..NumWorkers

NoToken == 0

NoOpText == <<"n", "o", "-", "o", "p">>
BadSignatureText == <<"B", "a", "d", " ", "s", "i", "g", "n", "a", "t", "u", "r", "e">>
BadRequestText == <<"B", "a", "d", " ", "R", "e", "q", "u", "e", "s", "t">>
InternalErrorText == <<"I", "n", "t", "e", "r", "n", "a", "l", " ", "S", "e", "r", "v", "e", "r", " ", "E", "r", "r", "o", "r">>
TokenPath == <<"/", "d", "n", "a", "/", "s", "y", "s", "t", "e", "m", "/", "a", "p", "i", "/", "v", "1", "/", "a", "u", "t", "h", "/", "t", "o", "k", "e", "n">>

\* request bodies: the bytes the signature is computed over and what
\* request.get_json(force=True) makes of them
InvalidJson == [t |-> "invalid"]

Complete(de, id) ==
  MapV("data" :> MapV(("description" :> de) @@
                      ("custom_fields" :> MapV("catalyst_interface_uuid" :> id))))

Documents ==
  << InvalidJson,
     ListV(1),
     Complete(StrV(<<>>), StrV(<<"1", "?">>)),
     Complete(StrV(<<"A">>), StrV(<<>>)),
     Complete(None, StrV(<<"1">>)),
     MapV("data" :> MapV("description" :> StrV(<<"A">>))),
     MapV("data" :> MapV(("description" :> StrV(<<"A">>)) @@
                         ("custom_fields" :> StrV(<<"x">>)))) >>

RawBodies == {[bytes |-> <<i>>, json |-> Documents[i]] : i \in DOMAIN Documents}

\* values of the X-Hook-Signature header sent with a body
HeaderValues(raw) ==
  IF NB_SECRET = <<>> THEN {None, StrV(<<"z">>)}
  ELSE { None,
         StrV(hexdigest(hmac_new(Encode(NB_SECRET), raw.bytes))),
         StrV(<<"z">>),
         StrV(<<NonAscii, "0">>) }

\* what the controller answers to the token request: no answer (connection
\* refused, timeout, TLS error) or a status with or without a Token in a JSON body
TokenStatuses == {200, 302, 401}

TokenResponses(fresh) ==
  {[kind |-> "error", status |-> 0, token |-> NoToken]}
    \cup {[kind |-> "http", status |-> st, token |-> fresh] : st \in TokenStatuses}
    \cup {[kind |-> "http", status |-> 200, token |-> NoToken]}

PutStatuses == {200, 404}

PutResponses ==
  {[kind |-> "error", status |-> 0, token |-> NoToken]}
    \cup {[kind |-> "http", status |-> st, token |-> NoToken] : st \in PutStatuses}

\* catalyst_token without r.raise_for_status()
catalyst_token_unchecked(r) ==
  IF r.kind = "error" THEN [exc |-> "ConnectionError", token |-> NoToken]
  ELSE IF r.token = NoToken THEN [exc |-> "KeyError", token |-> NoToken]
  ELSE [exc |-> "none", token |-> r.token]

\* catalyst_token, given the controller's answer r: requests.post raises on a
\* transport failure, raise_for_status on 4xx and 5xx, r.json()["Token"] on a
\* body without a Token
catalyst_token(r) ==
  IF r.kind = "error" THEN [exc |-> "ConnectionError", token |-> NoToken]
  ELSE IF 400 <= r.status /\ r.status < 600 THEN [exc |-> "HTTPError", token |-> NoToken]
  ELSE IF r.token = NoToken THEN [exc |-> "KeyError", token |-> NoToken]
  ELSE [exc |-> "none", token |-> r.token]

\* line 88 with "and" for "or"
IsNoOpBoth(iface_uuid, desc) == ~Truthy(iface_uuid) /\ IsNone(desc)

\* line 88: if not iface_uuid or desc is None
IsNoOp(iface_uuid, desc) == ~Truthy(iface_uuid) \/ IsNone(desc)

NoOpResponseOk == [status |-> 200, body |-> NoOpText]

\* line 93: return ("no-op", 204)
NoOpResponse == [status |-> 204, body |-> NoOpText]

\* the controller's status passed on as the response status
ReplyForwarded(r) == [status |-> r.status, body |-> DecStr(r.status)]

\* line 116: return (str(r.status_code), 200)
Reply(r) == [status |-> 200, body |-> DecStr(r.status)]

ReqInit ==
  [pc |-> "idle", raw |-> [bytes |-> <<>>, json |-> None], sig |-> None,
   uuid |-> None, desc |-> None, url |-> <<>>, token |-> NoToken,
   status |-> 0, body |-> <<>>]

Done(r, status, body) == [r EXCEPT !.pc = "done", !.status = status, !.body = body]

\* lines 76-99: from the arrival of the message to the token request.
\* abort(401) answers 401, a body that is no JSON 400, an uncaught exception 500.
Received(raw, sig) ==
  LET r == [ReqInit EXCEPT !.raw = raw, !.sig = sig]
      v == verify_hmac(raw.bytes, sig)
  IN IF v.exc # "none" THEN Done(r, 500, InternalErrorText)
     ELSE IF ~v.ok THEN Done(r, 401, BadSignatureText)
     ELSE IF raw.json = InvalidJson THEN Done(r, 400, BadRequestText)
     ELSE LET e == extract_uuid_and_desc(raw.json)
              found == [r EXCEPT !.uuid = e.uuid, !.desc = e.desc]
          IN IF e.exc # "none" THEN Done(r, 500, InternalErrorText)
             ELSE IF IsNoOp(e.uuid, e.desc)
                  THEN Done(found, NoOpResponse.status, NoOpResponse.body)
                  ELSE [found EXCEPT !.pc = "token", !.url = target_url(e.uuid)]

\* the most recent token the controller handed out to any invocation
XAuthTokenShared(h) == issued

\* line 108: "X-Auth-Token": token, the local of this invocation
XAuthToken(h) == req[h].token

Call(m, url, token, json, resp) ==
  [m |-> m, url |-> url, token |-> token, json |-> json, resp |-> resp]

Begin(h) ==
  /\ req[h].pc \in {"idle", "done"}
  /\ served < MaxRequests
  /\ \E raw \in RawBodies : \E sig \in HeaderValues(raw) :
       req' = [req EXCEPT ![h] = Received(raw, sig)]
  /\ calls' = [calls EXCEPT ![h] = <<>>]
  /\ served' = served + 1
  /\ UNCHANGED <<cfg, issued, arg, res>>

\* line 102: token = catalyst_token()
TokenRequest(h) ==
  /\ req[h].pc = "token"
  /\ \E r \in TokenResponses(issued + 1) :
       LET t == catalyst_token(r)
       IN /\ calls' = [calls EXCEPT ![h] =
                         Append(@, Call("POST", CC_HOST \o TokenPath, NoToken, None, r))]
          /\ issued' = IF r.token # NoToken THEN issued + 1 ELSE issued
          /\ req' = [req EXCEPT ![h] =
                       IF t.exc # "none" THEN Done(@, 500, InternalErrorText)
                       ELSE [@ EXCEPT !.pc = "put", !.token = t.token]]
  /\ UNCHANGED <<cfg, served, arg, res>>

\* lines 103-116: the PUT and the answer to the webhook source
UpdateRequest(h) ==
  /\ req[h].pc = "put"
  /\ \E r \in PutResponses :
       /\ calls' = [calls EXCEPT ![h] =
                      Append(@, Call("PUT", req[h].url, XAuthToken(h), req[h].desc, r))]
       /\ req' = [req EXCEPT ![h] =
                    IF r.kind = "error" THEN Done(@, 500, InternalErrorText)
                    ELSE Done(@, Reply(r).status, Reply(r).body)]
  /\ UNCHANGED <<cfg, issued, served, arg, res>>

Init ==
  /\ \E secret \in {<<>>, <<"s">>}, mp \in {<<Deploy, Generic>>, <<<<>>, Wireless>>} :
       cfg = Config(<<"h", "/">>, secret, mp[1], mp[2])
  /\ req = [h \in Workers |-> ReqInit]
  /\ calls = [h \in Workers |-> <<>>]
  /\ issued = 0
  /\ served = 0
  /\ arg = None
  /\ res = Pending

Next == \E h \in Workers : Begin(h) \/ TokenRequest(h) \/ UpdateRequest(h)

Spec == Init /\ [][Next]_vars

(***************************************************************************)
(* Properties of handle_nbx                                                *)
(***************************************************************************)
Posts(h) == {i \in DOMAIN calls[h] : calls[h][i].m = "POST"}
Puts(h) == {i \in DOMAIN calls[h] : calls[h][i].m = "PUT"}

\* what verification and extraction make of the message invocation h handles
VerifiedOf(h) == verify_hmac(req[h].raw.bytes, req[h].sig)
ExtractedOf(h) == extract_uuid_and_desc(req[h].raw.json)
DigestOf(h) == hexdigest(hmac_new(Encode(cfg.secret), req[h].raw.bytes))

\* C1: a PUT has been issued only if extraction produced both a non-absent
\* interface identifier and a non-absent description.
C1_PutOnlyWhenComplete ==
  \A h \in Workers :
    Puts(h) # {} =>
      /\ ExtractedOf(h).exc = "none"
      /\ ~IsNone(ExtractedOf(h).uuid)
      /\ ~IsNone(ExtractedOf(h).desc)

\* C1 witness: an invocation whose extraction was complete has issued its PUT.
C1_Witness ==
  \E h \in Workers :
    /\ Puts(h) # {}
    /\ ExtractedOf(h) = Returned(StrV(<<"1", "?">>), StrV(<<>>))

\* C2: with a secret configured, a message whose signature is not the keyed
\* hash of its body ends with status 401 and no outbound call is made for it.
C2_BadSignatureRejected ==
  \A h \in Workers :
    (cfg.secret # <<>> /\ req[h].pc # "idle" /\ req[h].sig # StrV(DigestOf(h))) =>
      /\ req[h].pc = "done"
      /\ req[h].status = 401
      /\ calls[h] = <<>>

\* C2, the part that holds whatever the signature: no outbound call is made
\* for a message whose signature is not the keyed hash of its body.
C2_BadSignatureNoCalls ==
  \A h \in Workers :
    (cfg.secret # <<>> /\ req[h].pc # "idle" /\ req[h].sig # StrV(DigestOf(h))) =>
      /\ req[h].pc = "done"
      /\ req[h].status \in {401, 500}
      /\ calls[h] = <<>>

\* the answer the controller gave to the PUT of a completed attempt
Completed(h) ==
  /\ req[h].pc = "done"
  /\ Puts(h) # {}
  /\ \A i \in Puts(h) : calls[h][i].resp.kind = "http"

\* C3: on a completed attempt the status reported to the webhook source is
\* the controller's status code.
C3_StatusForwarded ==
  \A h \in Workers :
    Completed(h) => \A i \in Puts(h) : req[h].status = calls[h][i].resp.status

\* C3 as amended: on a completed attempt the status reported to the webhook
\* source is 200 and the response body is the controller's status code in
\* decimal, for every controller status.
C3_StatusInBody ==
  \A h \in Workers :
    Completed(h) =>
      \A i \in Puts(h) : /\ req[h].status = 200
                         /\ req[h].body = DecStr(calls[h][i].resp.status)

\* C3 witness: a completed attempt whose PUT the controller answered 404.
C3_Witness ==
  \E h \in Workers :
    Completed(h) /\ \E i \in Puts(h) : calls[h][i].resp.status = 404

\* C4: a message that passes verification and whose extraction result lacks
\* the identifier or the description ends with status 204 (no error), and
\* neither the token request nor the update request is made for it.
C4_NoOpWhenIncomplete ==
  \A h \in Workers :
    ( /\ req[h].pc # "idle"
      /\ VerifiedOf(h) = Bool(TRUE)
      /\ req[h].raw.json # InvalidJson
      /\ ExtractedOf(h).exc = "none"
      /\ (IsNone(ExtractedOf(h).uuid) \/ IsNone(ExtractedOf(h).desc)) ) =>
      /\ req[h].pc = "done"
      /\ req[h].status = 204
      /\ calls[h] = <<>>

\* C4 witness: a verified message with an identifier and no description has
\* been answered, and one with a description and no identifier.
C4_Witness ==
  \E h \in Workers, g \in Workers :
    /\ req[h].pc = "done" /\ req[g].pc = "done"
    /\ cfg.secret # <<>>
    /\ VerifiedOf(h) = Bool(TRUE) /\ VerifiedOf(g) = Bool(TRUE)
    /\ ExtractedOf(h) = Returned(StrV(<<"1">>), None)
    /\ ExtractedOf(g) = Returned(None, StrV(<<"A">>))

\* a token request that got no answer or an HTTP error status
TokenFailed(r) == r.kind = "error" \/ r.status >= 400

\* C9: per invocation each controller call is made at most once, the PUT only
\* after the invocation's token request succeeded, and a failed token request
\* ends the invocation with status 500 and without a PUT.
C9_TokenThenUpdate ==
  \A h \in Workers :
    /\ Cardinality(Posts(h)) <= 1
    /\ Cardinality(Puts(h)) <= 1
    /\ \A i \in Puts(h) : \E j \in Posts(h) : j < i /\ ~TokenFailed(calls[h][j].resp)
    /\ \A j \in Posts(h) :
         TokenFailed(calls[h][j].resp) =>
           req[h].pc = "done" /\ req[h].status = 500 /\ Puts(h) = {}

\* C9 witness: one invocation ended 500 on a 401 from the token endpoint, one
\* on a transport failure, neither with a PUT.
C9_Witness ==
  \E h \in Workers, g \in Workers :
    /\ req[h].pc = "done" /\ req[g].pc = "done"
    /\ \E j \in Posts(h) : calls[h][j].resp.status = 401
    /\ \E j \in Posts(g) : calls[g][j].resp.kind = "error"
    /\ Puts(h) = {} /\ Puts(g) = {}

\* the token of a PUT is the one the same invocation's token request returned
OwnToken(h) ==
  /\ \A i \in Puts(h) :
       \E j \in Posts(h) : /\ j < i
                           /\ calls[h][i].token # NoToken
                           /\ calls[h][i].token = calls[h][j].resp.token
  /\ Completed(h) => Cardinality(Posts(h)) = 1

\* a step that ends invocation h with a fatal error leaves the others alone
Isolated(h) ==
  (req[h].pc # "done" /\ req'[h].pc = "done" /\ req'[h].status = 500) =>
    \A g \in Workers \ {h} : req'[g] = req[g] /\ calls'[g] = calls[g]

\* C10: under every interleaving the token a PUT carries is the one returned
\* by the same invocation's own token request, a completed attempt made
\* exactly one token request, and a fatal error in one invocation changes
\* nothing of any other invocation.
C10_OwnTokenIsolated ==
  /\ [](\A h \in Workers : OwnToken(h))
  /\ [][\A h \in Workers : Isolated(h)]_vars

\* C10 witness: of two invocations one completed with the second token the
\* controller handed out, the other failed on the first token request.
C10_Witness ==
  \E h \in Workers, g \in Workers :
    /\ h # g
    /\ Completed(h)
    /\ \E i \in Puts(h) : calls[h][i].token = 2
    /\ req[g].pc = "done" /\ req[g].status = 500
    /\ \E j \in Posts(g) : calls[g][j].resp.status = 401 /\ calls[g][j].resp.token = 1

====
